---------------------------- MODULE Spec2Model ----------------------------
(***************************************************************************)
(* A model of navaz-alani/dotenv: the regex-based loader and mutex-guarded *)
(* Env of package dotenv, and the earlier copying Env and split-based      *)
(* loader of package golangdotenv (env.go).                                *)
(*                                                                         *)
(* A Go string is a sequence of one-character strings; a map[string]string *)
(* is a function whose domain is the set of its keys; a file system is a   *)
(* function from the paths that can be read to their content.              *)
(***************************************************************************)
EXTENDS Integers, Sequences, FiniteSets, TLC

VARIABLES
    fs,         \* the files that exist: path -> content
    overWrite,  \* the flag handed to Load / Merge
    res,        \* what dotenv.Load returned (kind "none" before the call)
    resG,       \* what golangdotenv.Load returned
    e,          \* the receiver Env's map
    other,      \* the argument Env's map
    ret,        \* what the last Store operation returned
    envs,       \* shared Envs: name -> map
    mu,         \* shared Envs: name -> the goroutine holding its mutex, or Free
    gs,         \* goroutines: name -> its frame (pc, call, iteration state)
    thrown      \* the runtime has thrown "concurrent map ..." (fatal)

vars == <<fs, overWrite, res, resG, e, other, ret, envs, mu, gs, thrown>>

---------------------------------------------------------------------------
(* Bounds of the model.                                                    *)

\* lines per generated file
MaxLines == 2
\* nested Load calls before the goroutine's stack is exhausted
MaxDepth == 3
\* characters of a generated line in the line-content specification
MaxLineLen == 6
\* operations each goroutine performs
MaxOps == 1
\* lines of the root file when both packages' Load run
MaxLinesG == 3

---------------------------------------------------------------------------
(* Strings.                                                                *)

\* the class [ \t] of the regular expressions
IsBlank(c) == c \in {" ", "\t"}

\* unicode.IsSpace, on the characters the model writes into files
IsSpace(c) == c \in {" ", "\t", "\n", "\r"}

RECURSIVE TrimLeft(_)
TrimLeft(s) ==
    IF s # <<>> /\ IsSpace(Head(s)) THEN TrimLeft(Tail(s)) ELSE s

RECURSIVE TrimRight(_)
TrimRight(s) ==
    IF s # <<>> /\ IsSpace(s[Len(s)])
    THEN TrimRight(SubSeq(s, 1, Len(s) - 1))
    ELSE s

\* strings.TrimSpace
TrimSpace(s) == TrimRight(TrimLeft(s))

\* the first position >= i of s holding a character of cs, Len(s)+1 if none
RECURSIVE IndexFrom(_, _, _)
IndexFrom(s, cs, i) ==
    IF i > Len(s) THEN Len(s) + 1
    ELSE IF s[i] \in cs THEN i
    ELSE IndexFrom(s, cs, i + 1)

\* the first position >= i of s that is not matched by [ \t]
RECURSIVE SkipBlank(_, _)
SkipBlank(s, i) ==
    IF i <= Len(s) /\ IsBlank(s[i]) THEN SkipBlank(s, i + 1) ELSE i

\* strings.Split(s, sep) for a one-character separator
RECURSIVE Split(_, _)
Split(s, sep) ==
    LET p == IndexFrom(s, {sep}, 1)
    IN  IF p > Len(s) THEN <<s>>
        ELSE <<SubSeq(s, 1, p - 1)>> \o Split(SubSeq(s, p + 1, Len(s)), sep)

---------------------------------------------------------------------------
(* Package dotenv: the regular expressions.                                *)

loadKey == <<"_", "_", "G", "O", "_", "L", "O", "A", "D">>

\* kvEntry = ^[ \t]*[^=#]+[ \t]*=[ \t]*"[^"]+"[ \t]*
\* The length of keyValEntry.FindString(line), 0 when there is no match.
\* [^=#]+ cannot cross '=' or '#', so the '=' of a match is the first of the
\* two characters in the line and at least one character stands before it;
\* the value runs to the next quote; the trailing [ \t]* is greedy.
kvEntryEnd(line) ==
    LET p == IndexFrom(line, {"=", "#"}, 1)
        q == SkipBlank(line, p + 1)
        r == IndexFrom(line, {"\""}, q + 1)
    IN  IF /\ p >= 2
           /\ p <= Len(line)
           /\ line[p] = "="
           /\ q <= Len(line)
           /\ line[q] = "\""
           /\ r >= q + 2
           /\ r <= Len(line)
        THEN SkipBlank(line, r + 1) - 1
        ELSE 0

\* keyValEntry.FindString(line)
FindStringKv(line) == SubSeq(line, 1, kvEntryEnd(line))

\* entry = kvEntry followed by (#?.*)?$ : whatever follows the kvEntry match
\* is accepted as long as '.' matches it (no newline)
validEntry(line) ==
    LET t == kvEntryEnd(line)
    IN  t > 0 /\ IndexFrom(line, {"\n"}, t + 1) > Len(line)

\* comment = ^[ \t]+#.*?$
commentLine(line) ==
    LET n == SkipBlank(line, 1)
    IN  /\ n >= 2
        /\ n <= Len(line)
        /\ line[n] = "#"
        /\ IndexFrom(line, {"\n"}, n + 1) > Len(line)

---------------------------------------------------------------------------
(* Maps.                                                                   *)

EmptyMap == <<>>

\* m[k] = v
MapSet(m, k, v) == [x \in DOMAIN m \cup {k} |-> IF x = k THEN v ELSE m[x]]

\* m[k] of a Go map: the zero value "" when k is absent
MapGet(m, k) == IF k \in DOMAIN m THEN m[k] ELSE <<>>

---------------------------------------------------------------------------
(* Package dotenv: Env.                                                    *)

\* the loop of Merge over env.vars, todo being the keys not yet visited
RECURSIVE MergeLoop(_, _, _, _)
MergeLoop(ev, env, todo, ow) ==
    IF todo = {} THEN ev
    ELSE LET k == CHOOSE x \in todo : TRUE
         IN  MergeLoop(IF k \in DOMAIN ev /\ ~ow THEN ev
                       ELSE MapSet(ev, k, env[k]),
                       env, todo \ {k}, ow)

\* a Merge that never replaces a key the receiver holds
MergeKeepsAll(ev, env, ow) == MergeLoop(ev, env, DOMAIN env, FALSE)

\* (e *Env) Merge(env, overWrite): e.vars afterwards
Merge(ev, env, ow) == MergeLoop(ev, env, DOMAIN env, ow)

\* (e *Env) Get(key)
Get(ev, key) == MapGet(ev, key)

\* (e *Env) Count()
Count(ev) == Cardinality(DOMAIN ev)

---------------------------------------------------------------------------
(* Package dotenv: Load.                                                   *)
(* A result is [kind, nil, vars, err, log]: kind "ok" (e, nil), "error"    *)
(* (nil, err), "panic" (a run-time panic ended the call) or "fatal" (the   *)
(* stack was exhausted); nil says the returned *Env is nil; err is <<>>    *)
(* for a nil error and <<path>> for the error of reading path; log lists   *)
(* the paths handed to ioutil.ReadFile, in order.                          *)

NoResult == [kind |-> "none", nil |-> TRUE, vars |-> EmptyMap, err |-> <<>>, log |-> <<>>]

Ended(kind, err, log) ==
    [kind |-> kind, nil |-> TRUE, vars |-> EmptyMap, err |-> err, log |-> log]

\* the test of Load's loop that skips a line
Skipped(line) ==
    commentLine(line) \/ ~validEntry(line) \/ TrimSpace(line) = <<>>

\* kvPair := strings.Split(keyValEntry.FindString(line), "=")
kvPairOf(line) == Split(FindStringKv(line), "=")

\* key := strings.TrimSpace(kvPair[0])
KeyOf(line) == TrimSpace(kvPairOf(line)[1])

\* val := strings.TrimSpace(kvPair[1]), the quotes still on
QuotedOf(line) == TrimSpace(kvPairOf(line)[2])

\* val[1 : len(val)-1] is in range
CanUnquote(quoted) == Len(quoted) >= 2

\* val = val[1 : len(val)-1]
Unquote(quoted) == SubSeq(quoted, 2, Len(quoted) - 1)

RECURSIVE Load(_, _, _, _, _)
RECURSIVE LoadLoop(_, _, _, _, _, _, _)

\* the body of "for _, line := range lines", from line i on, ev being e.vars
LoadLoop(files, lines, i, ev, ow, depth, log) ==
    IF i > Len(lines)
    THEN [kind |-> "ok", nil |-> FALSE, vars |-> ev, err |-> <<>>, log |-> log]
    ELSE LET line == lines[i] IN
    IF Skipped(line)
    THEN LoadLoop(files, lines, i + 1, ev, ow, depth, log)
    ELSE LET key == KeyOf(line)
             quoted == QuotedOf(line)
         IN
         \* the slice expression panics when its bounds are out of range
         IF ~CanUnquote(quoted) THEN Ended("panic", <<>>, log)
         ELSE LET val == Unquote(quoted) IN
              IF key = loadKey
              THEN LET subEnv == Load(files, val, ow, depth + 1, log) IN
                   IF subEnv.kind # "ok"
                   THEN Ended(subEnv.kind, subEnv.err, subEnv.log)
                   ELSE LoadLoop(files, lines, i + 1,
                                 MapSet(Merge(ev, subEnv.vars, ow), key, val),
                                 ow, depth, subEnv.log)
              ELSE LoadLoop(files, lines, i + 1, MapSet(ev, key, val),
                            ow, depth, log)

\* Load(source, overWrite), called at nesting depth `depth`
Load(files, source, ow, depth, log) ==
    IF depth > MaxDepth THEN Ended("fatal", <<>>, log)
    ELSE IF source \notin DOMAIN files
    THEN Ended("error", <<source>>, Append(log, source))
    ELSE LoadLoop(files, Split(files[source], "\n"), 1, EmptyMap, ow, depth,
                  Append(log, source))

---------------------------------------------------------------------------
(* Package golangdotenv (env.go): Env.                                     *)

\* (e Env) Count()
CountG(params) == Cardinality(DOMAIN params)

\* (e Env) Get(key)
GetG(params, key) == MapGet(params, key)

\* (e Env) Set(key, val): e.params afterwards
SetG(params, key, val) == MapSet(params, key, val)

\* make([]string, n): n empty strings
ZeroStrings(n) == [i \in 1..n |-> <<>>]

\* the orders in which "range" may visit the keys of a map
Orders(S) ==
    { o \in [1..Cardinality(S) -> S] : \A i, j \in DOMAIN o : i # j => o[i] # o[j] }

\* (e Env) Keys(): the slices it may return, one per iteration order
Keys(params) ==
    { ZeroStrings(CountG(params)) \o o : o \in Orders(DOMAIN params) }

\* (e Env) Values(): the slices it may return, one per iteration order
Values(params) ==
    { ZeroStrings(CountG(params)) \o [i \in DOMAIN o |-> params[o[i]]] :
        o \in Orders(DOMAIN params) }

\* the second loop of Merge, over other.params; recv is e.params, out the copy
RECURSIVE MergeGLoop(_, _, _, _, _)
MergeGLoop(recv, out, oth, todo, ow) ==
    IF todo = {} THEN out
    ELSE LET key == CHOOSE x \in todo : TRUE
             isNil == GetG(recv, key) = <<>>
         IN  MergeGLoop(recv,
                        IF isNil \/ (~isNil /\ ow) THEN MapSet(out, key, oth[key])
                        ELSE out,
                        oth, todo \ {key}, ow)

\* (e Env) Merge(other, overwrite): the params of the Env returned
MergeG(params, oth, ow) == MergeGLoop(params, params, oth, DOMAIN oth, ow)

---------------------------------------------------------------------------
(* Package golangdotenv (env.go): Load.                                    *)
(* Results as for dotenv.Load; nil says the returned Env's params is nil.  *)
(* The files the specifications generate hold no cycle of unquoted         *)
(* inclusions, so this Load needs no depth.                                *)

RECURSIVE LoadG(_, _, _, _)
RECURSIVE LoadGLoop(_, _, _, _, _, _)

\* the body of "for i := 0; i < len(lines); i++", from line i on
LoadGLoop(files, lines, i, params, overwriteFlag, log) ==
    IF i > Len(lines)
    THEN [kind |-> "ok", nil |-> FALSE, vars |-> params, err |-> <<>>, log |-> log]
    ELSE LET currParam == Split(lines[i], "=") IN
    IF Len(currParam) < 2
    THEN LoadGLoop(files, lines, i + 1, params, overwriteFlag, log)
    ELSE LET key == TrimSpace(currParam[1])
             val == TrimSpace(currParam[2])
         IN  IF key = loadKey
             THEN \* tmpEnv, _ := Load(val, overwriteFlag): the error is dropped
                  LET tmpEnv == LoadG(files, val, <<overwriteFlag>>, log) IN
                  LoadGLoop(files, lines, i + 1,
                            MapSet(MergeG(params, tmpEnv.vars, overwriteFlag), key, val),
                            overwriteFlag, tmpEnv.log)
             ELSE LoadGLoop(files, lines, i + 1, MapSet(params, key, val),
                            overwriteFlag, log)

\* Load(filename, overwrite...)
LoadG(files, filename, overwrite, log) ==
    IF filename \notin DOMAIN files
    THEN Ended("error", <<filename>>, Append(log, filename))
    ELSE LoadGLoop(files, Split(files[filename], "\n"), 1, EmptyMap,
                   IF Len(overwrite) # 0 THEN overwrite[1] ELSE TRUE,
                   Append(log, filename))

---------------------------------------------------------------------------
(* Files.                                                                  *)

PathR == <<"r">>
PathS == <<"s">>
PathT == <<"t">>

\* key = "val"
EntryLine(key, val) == key \o <<" ", "=", " ", "\"">> \o val \o <<"\"">>

\* key=val
BareLine(key, val) == key \o <<"=">> \o val

\* the lines of a file, joined by newlines
RECURSIVE Join(_)
Join(ls) ==
    IF ls = <<>> THEN <<>>
    ELSE IF Len(ls) = 1 THEN ls[1]
    ELSE ls[1] \o <<"\n">> \o Join(Tail(ls))

\* the files of at most n lines drawn from pool
FilesOf(pool, n) == { Join(ls) : ls \in UNION { [1..m -> pool] : m \in 0..n } }

\* a file that may be missing: <<>> or <<content>>
Maybe(S) == {<<>>} \cup { <<c>> : c \in S }

OneFile(path, m) == IF m = <<>> THEN <<>> ELSE path :> m[1]

MkFS(r, s, t) == OneFile(PathR, r) @@ OneFile(PathS, s) @@ OneFile(PathT, t)

\* the lines of the files dotenv.Load is run on
ChainLines ==
    { EntryLine(<<"k">>, <<"v">>),
      EntryLine(<<"k">>, <<"w">>),
      EntryLine(loadKey, PathS),
      EntryLine(loadKey, PathT) }

LeafFiles == { EntryLine(<<"k">>, <<"u">>) }

ChainFS ==
    { MkFS(r, s, t) : r \in Maybe(FilesOf(ChainLines, MaxLines)),
                      s \in Maybe(FilesOf(ChainLines, MaxLines)),
                      t \in Maybe(LeafFiles) }

\* the lines of the files both Loads are run on: the root includes s in
\* either package's syntax, s includes t
RootLinesG ==
    { EntryLine(<<"k">>, <<"v">>),
      BareLine(<<"k">>, <<>>),
      EntryLine(loadKey, PathS),
      BareLine(loadKey, PathS) }

SubLinesG ==
    { EntryLine(<<"k">>, <<"w">>),
      EntryLine(loadKey, PathT),
      BareLine(loadKey, PathT) }

BothFS ==
    { MkFS(r, s, t) : r \in Maybe(FilesOf(RootLinesG, MaxLinesG)),
                      s \in Maybe(FilesOf(SubLinesG, MaxLines)),
                      t \in Maybe(LeafFiles) }

\* the characters of the lines of the line-content specification
Alphabet == {"k", " ", "=", "\"", "#"}

AllLines == UNION { [1..n -> Alphabet] : n \in 0..MaxLineLen }

\* the maps of the Store specification
StoreKeys == { <<"k">>, <<"j">> }
StoreVals == { <<>>, <<"v">>, <<"w">> }
Stores == UNION { [D -> StoreVals] : D \in SUBSET StoreKeys }

---------------------------------------------------------------------------
(* The operations as actions.                                              *)

NoRet == [op |-> "none", before |-> EmptyMap, env |-> EmptyMap, list |-> <<>>]

NoLoad == res = NoResult /\ resG = NoResult /\ fs = <<>>

NoStore == e = EmptyMap /\ other = EmptyMap /\ ret = NoRet

NoGoroutines == envs = <<>> /\ mu = <<>> /\ gs = <<>> /\ thrown = FALSE

\* dotenv.Load(root, overWrite)
DoLoad ==
    /\ res.kind = "none"
    /\ res' = Load(fs, PathR, overWrite, 1, <<>>)
    /\ UNCHANGED <<fs, overWrite, resG, e, other, ret, envs, mu, gs, thrown>>

\* golangdotenv.Load(root, overWrite)
DoLoadG ==
    /\ resG.kind = "none"
    /\ resG' = LoadG(fs, PathR, <<overWrite>>, <<>>)
    /\ UNCHANGED <<fs, overWrite, res, e, other, ret, envs, mu, gs, thrown>>

\* e.Merge(other, overWrite) of package dotenv, in place
DoMerge ==
    /\ e' = Merge(e, other, overWrite)
    /\ ret' = [op |-> "Merge", before |-> e, env |-> e', list |-> <<>>]
    /\ UNCHANGED <<fs, overWrite, res, resG, other, envs, mu, gs, thrown>>

\* e.Merge(other, overWrite) of package golangdotenv, returning a new Env
DoMergeG ==
    /\ ret' = [op |-> "MergeG", before |-> e,
               env |-> MergeG(e, other, overWrite), list |-> <<>>]
    /\ UNCHANGED <<fs, overWrite, res, resG, e, other, envs, mu, gs, thrown>>

\* e.Keys() of package golangdotenv
DoKeys ==
    /\ \E l \in Keys(e) :
          ret' = [op |-> "Keys", before |-> e, env |-> e, list |-> l]
    /\ UNCHANGED <<fs, overWrite, res, resG, e, other, envs, mu, gs, thrown>>

\* e.Values() of package golangdotenv
DoValues ==
    /\ \E l \in Values(e) :
          ret' = [op |-> "Values", before |-> e, env |-> e, list |-> l]
    /\ UNCHANGED <<fs, overWrite, res, resG, e, other, envs, mu, gs, thrown>>

\* e.Set(key, val) of package golangdotenv
DoSetG ==
    /\ \E key \in StoreKeys, val \in StoreVals :
          /\ e' = SetG(e, key, val)
          /\ ret' = [op |-> "Set", before |-> e, env |-> e', list |-> <<key, val>>]
    /\ UNCHANGED <<fs, overWrite, res, resG, other, envs, mu, gs, thrown>>

---------------------------------------------------------------------------
(* Package dotenv: goroutines calling Merge, Get and Count on shared Envs. *)
(* A step is one access to a map or one mutex operation.                   *)

Goroutines == {"g1", "g2"}
EnvNames == {"a", "b", "c"}
Free == "free"

SharedKeys == { <<"k">> }
SharedStores == { EmptyMap, <<"k">> :> <<"v">>, <<"k">> :> <<"w">> }

IdleFrame ==
    [pc |-> "idle", op |-> "none", recv |-> "a", arg |-> "a", ow |-> FALSE,
     seen |-> {}, key |-> <<>>, val |-> <<>>, out |-> <<>>, n |-> 0, ops |-> 0]

Unused == <<fs, overWrite, res, resG, e, other, ret>>

\* the accesses to Envs' maps that the next step of goroutine g makes
Accesses(g) ==
    LET f == gs[g] IN
    CASE f.pc = "range" -> { [env |-> f.arg, write |-> FALSE] }
      [] f.pc = "store" ->
            { [env |-> f.recv,
               write |-> ~(f.key \in DOMAIN envs[f.recv] /\ ~f.ow)] }
      [] f.pc \in {"read", "len"} -> { [env |-> f.recv, write |-> FALSE] }
      [] OTHER -> {}

\* two goroutines are about to access the same map, one of them writing
Race ==
    \E g, h \in Goroutines :
        /\ g # h
        /\ \E x \in Accesses(g), y \in Accesses(h) :
              x.env = y.env /\ (x.write \/ y.write)

\* go e.Merge(env, overWrite)
CallMerge(g) ==
    /\ ~thrown
    /\ gs[g].pc = "idle"
    /\ gs[g].ops < MaxOps
    /\ \E recv \in EnvNames, arg \in EnvNames, ow \in BOOLEAN :
          gs' = [gs EXCEPT ![g] = [@ EXCEPT !.pc = "lock", !.op = "Merge",
                                            !.recv = recv, !.arg = arg,
                                            !.ow = ow, !.seen = {}]]
    /\ UNCHANGED <<envs, mu, thrown>>
    /\ UNCHANGED Unused

\* go e.Get(key)
CallGet(g) ==
    /\ ~thrown
    /\ gs[g].pc = "idle"
    /\ gs[g].ops < MaxOps
    /\ \E recv \in EnvNames, key \in SharedKeys :
          gs' = [gs EXCEPT ![g] = [@ EXCEPT !.pc = "lock", !.op = "Get",
                                            !.recv = recv, !.key = key]]
    /\ UNCHANGED <<envs, mu, thrown>>
    /\ UNCHANGED Unused

\* go e.Count()
CallCount(g) ==
    /\ ~thrown
    /\ gs[g].pc = "idle"
    /\ gs[g].ops < MaxOps
    /\ \E recv \in EnvNames :
          gs' = [gs EXCEPT ![g] = [@ EXCEPT !.pc = "lock", !.op = "Count",
                                            !.recv = recv]]
    /\ UNCHANGED <<envs, mu, thrown>>
    /\ UNCHANGED Unused

\* e.mu.Lock()
Lock(g) ==
    /\ ~thrown
    /\ gs[g].pc = "lock"
    /\ mu[gs[g].recv] = Free
    /\ mu' = [mu EXCEPT ![gs[g].recv] = g]
    /\ gs' = [gs EXCEPT ![g].pc = CASE gs[g].op = "Merge" -> "range"
                                    [] gs[g].op = "Get" -> "read"
                                    [] OTHER -> "len"]
    /\ UNCHANGED <<envs, thrown>>
    /\ UNCHANGED Unused

\* for k, v := range env.vars: the next pair, or the end of the loop
MergeRange(g) ==
    /\ ~thrown
    /\ gs[g].pc = "range"
    /\ LET left == DOMAIN envs[gs[g].arg] \ gs[g].seen IN
       IF left = {}
       THEN gs' = [gs EXCEPT ![g].pc = "unlock"]
       ELSE \E k \in left :
               gs' = [gs EXCEPT ![g] = [@ EXCEPT !.pc = "store", !.key = k,
                                                 !.val = envs[gs[g].arg][k],
                                                 !.seen = @ \cup {k}]]
    /\ UNCHANGED <<envs, mu, thrown>>
    /\ UNCHANGED Unused

\* if _, ok := e.vars[k]; ok && !overWrite { continue }; e.vars[k] = v
MergeStore(g) ==
    /\ ~thrown
    /\ gs[g].pc = "store"
    /\ envs' = IF gs[g].key \in DOMAIN envs[gs[g].recv] /\ ~gs[g].ow
               THEN envs
               ELSE [envs EXCEPT ![gs[g].recv] = MapSet(@, gs[g].key, gs[g].val)]
    /\ gs' = [gs EXCEPT ![g].pc = "range"]
    /\ UNCHANGED <<mu, thrown>>
    /\ UNCHANGED Unused

\* return e.vars[key]
GetRead(g) ==
    /\ ~thrown
    /\ gs[g].pc = "read"
    /\ gs' = [gs EXCEPT ![g] = [@ EXCEPT !.pc = "unlock",
                                         !.out = Get(envs[gs[g].recv], gs[g].key)]]
    /\ UNCHANGED <<envs, mu, thrown>>
    /\ UNCHANGED Unused

\* return len(e.vars)
CountLen(g) ==
    /\ ~thrown
    /\ gs[g].pc = "len"
    /\ gs' = [gs EXCEPT ![g] = [@ EXCEPT !.pc = "unlock",
                                         !.n = Count(envs[gs[g].recv])]]
    /\ UNCHANGED <<envs, mu, thrown>>
    /\ UNCHANGED Unused

\* defer e.mu.Unlock()
Unlock(g) ==
    /\ ~thrown
    /\ gs[g].pc = "unlock"
    /\ mu' = [mu EXCEPT ![gs[g].recv] = Free]
    /\ gs' = [gs EXCEPT ![g] = [@ EXCEPT !.pc = "idle", !.ops = @ + 1]]
    /\ UNCHANGED <<envs, thrown>>
    /\ UNCHANGED Unused

\* the runtime may detect the unsynchronised access and end the program:
\* "fatal error: concurrent map read and map write"
Throw ==
    /\ ~thrown
    /\ Race
    /\ thrown' = TRUE
    /\ UNCHANGED <<envs, mu, gs>>
    /\ UNCHANGED Unused

---------------------------------------------------------------------------
(* Spec: dotenv.Load over chained files.                                   *)

Init ==
    /\ fs \in ChainFS
    /\ overWrite \in BOOLEAN
    /\ res = NoResult
    /\ resG = NoResult
    /\ NoStore
    /\ NoGoroutines

Next == DoLoad

Spec == Init /\ [][Next]_vars

(* SpecBoth: both packages' Load over the same chained files.              *)

InitBoth ==
    /\ fs \in BothFS
    /\ overWrite \in BOOLEAN
    /\ res = NoResult
    /\ resG = NoResult
    /\ NoStore
    /\ NoGoroutines

NextBoth == DoLoad \/ DoLoadG

SpecBoth == InitBoth /\ [][NextBoth]_vars

(* SpecParse: dotenv.Load over every one-line file of MaxLineLen           *)
(* characters.                                                             *)

InitParse ==
    /\ fs \in { PathR :> line : line \in AllLines }
    /\ overWrite \in BOOLEAN
    /\ res = NoResult
    /\ resG = NoResult
    /\ NoStore
    /\ NoGoroutines

SpecParse == InitParse /\ [][Next]_vars

(* SpecStore: the operations of the two Env types.                         *)

InitStore ==
    /\ NoLoad
    /\ overWrite \in BOOLEAN
    /\ e \in Stores
    /\ other \in Stores
    /\ ret = NoRet
    /\ NoGoroutines

NextStore == DoMerge \/ DoMergeG \/ DoKeys \/ DoValues \/ DoSetG

SpecStore == InitStore /\ [][NextStore]_vars

(* SpecConc: goroutines on shared Envs.                                    *)

InitConc ==
    /\ NoLoad
    /\ overWrite = FALSE
    /\ NoStore
    /\ envs \in [EnvNames -> SharedStores]
    /\ mu = [x \in EnvNames |-> Free]
    /\ gs = [g \in Goroutines |-> IdleFrame]
    /\ thrown = FALSE

NextConc ==
    \/ \E g \in Goroutines :
          \/ CallMerge(g)
          \/ CallGet(g)
          \/ CallCount(g)
          \/ Lock(g)
          \/ MergeRange(g)
          \/ MergeStore(g)
          \/ GetRead(g)
          \/ CountLen(g)
          \/ Unlock(g)
    \/ Throw

SpecConc == InitConc /\ [][NextConc]_vars

---------------------------------------------------------------------------
(* Vocabulary of the properties.                                           *)

\* the lines of a file that exists
LinesOf(path) == Split(fs[path], "\n")

RootLines == IF PathR \in DOMAIN fs THEN LinesOf(PathR) ELSE <<>>

\* dotenv.Load takes the line as an entry: it is not skipped and the value
\* can be unquoted
IsEntry(line) == ~Skipped(line) /\ CanUnquote(QuotedOf(line))

ValOf(line) == Unquote(QuotedOf(line))

\* the lines of a file that are entries for key k
EntriesFor(lines, k) ==
    { n \in DOMAIN lines : IsEntry(lines[n]) /\ KeyOf(lines[n]) = k }

\* the keys a file has an entry for
KeysIn(lines) == { KeyOf(lines[n]) : n \in { m \in DOMAIN lines : IsEntry(lines[m]) } }

Last(S) == CHOOSE n \in S : \A m \in S : m <= n

\* the value of the last entry for k
LastVal(lines, k) == ValOf(lines[Last(EntriesFor(lines, k))])

\* k has an entry in both files, with different values
DefinedInBoth(lines1, lines2, k) ==
    \E a \in EntriesFor(lines1, k), b \in EntriesFor(lines2, k) :
        ValOf(lines1[a]) # ValOf(lines2[b])

\* line n of the root is an inclusion of a file that exists (package dotenv)
Includes(n) ==
    /\ n \in DOMAIN RootLines
    /\ IsEntry(RootLines[n])
    /\ KeyOf(RootLines[n]) = loadKey
    /\ ValOf(RootLines[n]) \in DOMAIN fs

\* what Load gives for the file a root line includes
Included(n) == Load(fs, ValOf(RootLines[n]), overWrite, 2, <<>>)

\* the same for package golangdotenv, whose entries are key=value
IsEntryG(line) == Len(Split(line, "=")) >= 2
KeyOfG(line) == TrimSpace(Split(line, "=")[1])
ValOfG(line) == TrimSpace(Split(line, "=")[2])

EntriesForG(lines, k) ==
    { n \in DOMAIN lines : IsEntryG(lines[n]) /\ KeyOfG(lines[n]) = k }

LastValG(lines, k) == ValOfG(lines[Last(EntriesForG(lines, k))])

IncludesG(n) ==
    /\ n \in DOMAIN RootLines
    /\ IsEntryG(RootLines[n])
    /\ KeyOfG(RootLines[n]) = loadKey
    /\ ValOfG(RootLines[n]) \in DOMAIN fs

---------------------------------------------------------------------------
(* C1. Merge(other, overwrite): the result holds exactly the keys of the   *)
(* receiver and of other; a key of other has other's value when the        *)
(* receiver lacks it or overwrite is true, and the receiver's value        *)
(* otherwise (an empty receiver value included); every other key keeps its *)
(* value. For the in-place Merge and for the copying Merge.                *)

MergeContract(recv, oth, ow, out) ==
    /\ DOMAIN out = DOMAIN recv \cup DOMAIN oth
    /\ \A k \in DOMAIN out :
          out[k] = IF k \in DOMAIN oth /\ (k \notin DOMAIN recv \/ ow)
                   THEN oth[k] ELSE recv[k]

\* C1: after either Merge the result meets the contract of Merge
C1_MergeContract ==
    ret.op \in {"Merge", "MergeG"} =>
        MergeContract(ret.before, other, overWrite, ret.env)

---------------------------------------------------------------------------
(* C2. Chaining without overwrite: when the root includes a file and a key *)
(* has a valid entry in both with different values, Load(root, false)      *)
(* gives the key the root file's value, wherever the root's entry stands.  *)
(* For dotenv.Load and for golangdotenv.Load.                              *)

\* C2, package dotenv: without overwrite the root's last value for the key stays
C2_RootWinsDotenv ==
    (res.kind = "ok" /\ ~overWrite) =>
        \A n \in DOMAIN RootLines : Includes(n) =>
            \A k \in KeysIn(RootLines) :
                DefinedInBoth(RootLines, LinesOf(ValOf(RootLines[n])), k) =>
                    Get(res.vars, k) = LastVal(RootLines, k)

\* C2, package golangdotenv: the same, lines read as that package reads them
C2_RootWinsGolang ==
    (resG.kind = "ok" /\ ~overWrite) =>
        \A n \in DOMAIN RootLines : IncludesG(n) =>
            \A k \in KeysIn(RootLines) :
                DefinedInBoth(RootLines, LinesOf(ValOfG(RootLines[n])), k) =>
                    GetG(resG.vars, k) = LastValG(RootLines, k)

\* C2: without overwrite the root's value wins, in both packages
C2_RootWins == C2_RootWinsDotenv /\ C2_RootWinsGolang

---------------------------------------------------------------------------
(* C3. Chaining with overwrite: when the root includes a file and a key    *)
(* has a valid entry in both with different values, Load(root, true) gives *)
(* the key the value Load gives it for the included file.                  *)

C3_Case(n, k) ==
    /\ Includes(n)
    /\ DefinedInBoth(RootLines, LinesOf(ValOf(RootLines[n])), k)

\* C3 as stated: with overwrite the included file's value wins, whatever
\* follows the inclusion line
C3_IncludedWins ==
    (res.kind = "ok" /\ overWrite) =>
        \A n \in DOMAIN RootLines : \A k \in KeysIn(RootLines) :
            C3_Case(n, k) => Get(res.vars, k) = Get(Included(n).vars, k)

\* no entry of the root for k stands at or after line n, and no later
\* inclusion brings k in again
C3_Settled(n, k) ==
    /\ \A m \in EntriesFor(RootLines, k) : m < n
    /\ \A m \in DOMAIN RootLines :
          (m > n /\ Includes(m)) => k \notin DOMAIN Included(m).vars

\* C3 as amended: with overwrite the included file's value wins when no entry
\* of the root for the key stands at or after the inclusion line and no later
\* inclusion brings the key in again
C3_IncludedWinsWhenLast ==
    (res.kind = "ok" /\ overWrite) =>
        \A n \in DOMAIN RootLines : \A k \in KeysIn(RootLines) :
            (C3_Case(n, k) /\ C3_Settled(n, k)) =>
                Get(res.vars, k) = Get(Included(n).vars, k)

\* C3: a root entry before its only inclusion, replaced by the included value
C3_Witness ==
    /\ res.kind = "ok"
    /\ overWrite
    /\ \E n \in DOMAIN RootLines : \E k \in KeysIn(RootLines) :
          /\ C3_Case(n, k)
          /\ C3_Settled(n, k)
          /\ Get(res.vars, k) = Get(Included(n).vars, k)
          /\ Get(res.vars, k) # LastVal(RootLines, k)

---------------------------------------------------------------------------
(* C4. Error propagation: when a file of the chain cannot be read, Load of *)
(* the root returns that read's error and no populated Store, and reads    *)
(* nothing after the failing read. For both packages' Load.                *)

Propagates(r) ==
    (r.kind # "none" /\ \E n \in DOMAIN r.log : r.log[n] \notin DOMAIN fs) =>
        /\ r.kind = "error"
        /\ r.err = <<r.log[Len(r.log)]>>
        /\ \A n \in DOMAIN r.log : (r.log[n] \notin DOMAIN fs) <=> (n = Len(r.log))
        /\ r.vars = EmptyMap

\* C4: a failing read anywhere in the chain ends Load of the root with that
\* error and no Store, in both packages
C4_ErrorPropagates == Propagates(res) /\ Propagates(resG)

---------------------------------------------------------------------------
(* C5. Concurrency safety: no state is reachable in which one goroutine is *)
(* about to write an Env's map while another is about to read or write the *)
(* same map, the argument of Merge included.                               *)

\* C5: no two goroutines are ever about to access the same map, one writing
C5_NoConcurrentMapAccess == ~Race

---------------------------------------------------------------------------
(* C6. Load is total on line content: when every file of the chain can be  *)
(* read and the chain has no cycle, Load returns a Store and a nil error.  *)

\* C6: with every file readable and no cycle, Load returns a Store and nil
C6_LoadTotal ==
    (res.kind \notin {"none", "fatal"} /\ \A n \in DOMAIN res.log : res.log[n] \in DOMAIN fs) =>
        (res.kind = "ok" /\ res.err = <<>> /\ ~res.nil)

---------------------------------------------------------------------------
(* C7. Round trip: when every line of the file is key = "value" with a     *)
(* non-empty value free of double quotes, no key twice and no inclusion,   *)
(* Load returns a Store in which Get(key) is the value of the key's line   *)
(* and Count() is the number of lines.                                     *)

\* the line read as the format reads it: key, '=', quoted value
FormatEq(line) == IndexFrom(line, {"="}, 1)
FormatKey(line) == TrimSpace(SubSeq(line, 1, FormatEq(line) - 1))
FormatQuoted(line) == TrimSpace(SubSeq(line, FormatEq(line) + 1, Len(line)))
FormatValue(line) == SubSeq(FormatQuoted(line), 2, Len(FormatQuoted(line)) - 1)

IsFormatEntry(line) ==
    /\ FormatEq(line) <= Len(line)
    /\ FormatKey(line) # <<>>
    /\ \A n \in 1..(FormatEq(line) - 1) : line[n] # "#"
    /\ Len(FormatQuoted(line)) >= 3
    /\ FormatQuoted(line)[1] = "\""
    /\ FormatQuoted(line)[Len(FormatQuoted(line))] = "\""
    /\ \A n \in DOMAIN FormatValue(line) : FormatValue(line)[n] # "\""

C7_Case ==
    /\ res.kind # "none"
    /\ \A n \in DOMAIN RootLines :
          IsFormatEntry(RootLines[n]) /\ FormatKey(RootLines[n]) # loadKey
    /\ \A n, m \in DOMAIN RootLines :
          n # m => FormatKey(RootLines[n]) # FormatKey(RootLines[m])

\* C7: a file of well-formed entries loads to exactly its keys and values
C7_RoundTrip ==
    C7_Case =>
        /\ res.kind = "ok"
        /\ \A n \in DOMAIN RootLines :
              Get(res.vars, FormatKey(RootLines[n])) = FormatValue(RootLines[n])
        /\ Count(res.vars) = Len(RootLines)

---------------------------------------------------------------------------
(* C8. Empty values are never stored: every key of a Store that Load       *)
(* returns has a non-empty value.                                          *)

\* C8: no key of a loaded Store has the empty value
C8_NoEmptyValue ==
    res.kind = "ok" => \A k \in DOMAIN res.vars : res.vars[k] # <<>>

---------------------------------------------------------------------------
(* C9. Keys() returns each key of the Store exactly once and nothing else, *)
(* Values() one element per key, that key's value; both have Count()       *)
(* elements.                                                               *)

\* C9: Keys() and Values() enumerate the Store, Count() elements each
C9_KeysValues ==
    /\ ret.op = "Keys" =>
          /\ Len(ret.list) = CountG(ret.env)
          /\ \A n \in DOMAIN ret.list : ret.list[n] \in DOMAIN ret.env
          /\ \A k \in DOMAIN ret.env :
                Cardinality({ n \in DOMAIN ret.list : ret.list[n] = k }) = 1
    /\ ret.op = "Values" =>
          /\ Len(ret.list) = CountG(ret.env)
          /\ \E o \in Orders(DOMAIN ret.env) :
                \A n \in DOMAIN o : ret.list[n] = ret.env[o[n]]

---------------------------------------------------------------------------
(* C10. Every key of a Store that Load returns is non-empty and holds      *)
(* neither '=' nor '#'.                                                    *)

\* C10: every key of a loaded Store is non-empty, without '=' and '#'
C10_KeysWellFormed ==
    res.kind = "ok" =>
        \A k \in DOMAIN res.vars :
            k # <<>> /\ \A n \in DOMAIN k : k[n] \notin {"=", "#"}

=============================================================================
